---- MODULE Spec2Model ----
(***************************************************************************)
(* Model of minefield::MineField (src/src/lib.rs): the grid of packed     *)
(* cell bytes, the status word, the cursor and the blink tick counter,    *)
(* with one action per public method.                                     *)
(***************************************************************************)
EXTENDS Integers, Sequences, FiniteSets, TLC

VARIABLES w, h, m, f, s, r, c, t, last

vars == <<w, h, m, f, s, r, c, t, last>>

(* ---- bounds ---------------------------------------------------------- *)
\* boards are at most MaxW wide and MaxH high and have at most MaxCells cells
MaxW == 3
MaxH == 2
MaxCells == 6
\* at most MaxMines mines are requested
MaxMines == 3
\* the main specification takes tick() only while t < TickCap
TickCap == 1
\* the specification that takes every tick has boards of at most BlinkCells cells
BlinkCells == 2

(* ---- widths and constants of the program ----------------------------- *)
U16 == 65536
\* blink cursor count max, set by new()
b == 80
EXPLODED == 32768
SUCCEEDED == 16384
OPEN == 16
FORCE == 128
MINE == 15

(* ---- bit helpers: x & k != 0 and x |= k for a single-bit mask k ------- *)
bit(x, k) == (x \div k) % 2 = 1
setbit(x, k) == IF bit(x, k) THEN x ELSE x + k

(* ---- cell byte accessors --------------------------------------------- *)
set_e(u) == setbit(u, FORCE)
is_e(u) == bit(u, FORCE)
is_o(u) == bit(u, OPEN)
set_o_noforce(u, e) == setbit(u, OPEN)
set_o_forceall(u, e) == IF e THEN setbit(set_e(u), OPEN) ELSE setbit(u, OPEN)
set_o(u, e) == IF e /\ ~is_o(u) THEN setbit(set_e(u), OPEN) ELSE setbit(u, OPEN)
set_m(u) == MINE
is_mine(u) == u = MINE
get_v(u) == u % 16

(* ---- status word accessors ------------------------------------------- *)
is_explosion(st) == bit(st, EXPLODED)
explosion_lost(st) == st
explosion(st) == setbit(st, EXPLODED)
is_success(st) == bit(st, SUCCEEDED)
success(st) == setbit(st, SUCCEEDED)
is_end(st) == st >= SUCCEEDED

is_opened(g, j, i) == is_o(g[j][i])

(* ---- neighbourhood range, clipped at the edges ----------------------- *)
lo(x) == IF x > 0 THEN x - 1 ELSE x
hi_noclip(x, n) == x
hi(x, n) == IF x < n - 1 THEN x + 1 ELSE x

get_k_row(ww, hh, g, j0, i0) ==
  Cardinality({i \in lo(i0)..hi(i0, ww) : i # i0 /\ is_mine(g[j0][i])})

(* get_k: number of mine bytes among the neighbours of (j0, i0) in g *)
get_k(ww, hh, g, j0, i0) ==
  Cardinality({<<j, i>> \in (lo(j0)..hi(j0, hh)) \X (lo(i0)..hi(i0, ww)) :
                 ~(j = j0 /\ i = i0) /\ is_mine(g[j][i])})

(* ---- open: recursive reveal, in the loop order of the source --------- *)
\* self.s += 1
incr_lost(x) == x
incr(x) == (x + 1) % U16

\* the field calls counts the calls of open made so far by one click
RECURSIVE open(_, _, _), open_loop(_, _, _, _, _)
open(st, j0, i0) ==
  LET n == st.f[j0][i0]
      v == get_v(n)
  IN IF is_mine(v)
     THEN [f |-> st.f, s |-> st.s, ok |-> FALSE, calls |-> st.calls + 1]
     ELSE LET st1 == [f |-> [st.f EXCEPT ![j0][i0] = set_o(n, FALSE)],
                      s |-> incr(st.s),
                      ok |-> TRUE,
                      calls |-> st.calls + 1]
          IN IF v = 0 THEN open_loop(st1, j0, i0, lo(j0), lo(i0)) ELSE st1

open_loop(st, j0, i0, j, i) ==
  IF j > hi(j0, h) THEN [st EXCEPT !.ok = TRUE]
  ELSE IF i > hi(i0, w) THEN open_loop(st, j0, i0, j + 1, lo(i0))
  ELSE IF j = j0 /\ i = i0 THEN open_loop(st, j0, i0, j, i + 1)
  ELSE IF ~is_opened(st.f, j, i)
       THEN open_loop(open(st, j, i), j0, i0, j, i + 1)
       ELSE open_loop(st, j0, i0, j, i + 1)

(* ---- start: mine placement and adjacency counts ---------------------- *)
Min(a, bb) == IF a < bb THEN a ELSE bb

RECURSIVE Arrangements(_, _)
Arrangements(k, S) ==
  IF k = 0 THEN {<<>>}
  ELSE UNION {{<<x>> \o q : q \in Arrangements(k - 1, S \ {x})} : x \in S}

\* the entries p[0..m] of the shuffled index list that start() reads
Shuffles == Arrangements(Min(m + 1, w * h), 0 .. (w * h - 1))

place_any(e, pr, pc) == TRUE
place_nofill(e, pr, pc) == pr # r \/ pc # c
place_ok(e, pr, pc) == e \/ pr # r \/ pc # c

RECURSIVE place(_, _, _, _, _)
place(g, p, e, i, n) ==
  IF i > m \/ n >= m \/ i >= Len(p) THEN g
  ELSE LET pr == p[i + 1] \div w
           pc == p[i + 1] % w
       IN IF place_ok(e, pr, pc)
          THEN place([g EXCEPT ![pr][pc] = set_m(g[pr][pc])], p, e, i + 1, n + 1)
          ELSE place(g, p, e, i + 1, n)

start(g, p) ==
  LET e == m >= (w * h) % U16
      g1 == place(g, p, e, 0, 0)
  IN [j \in 0 .. (h - 1) |-> [i \in 0 .. (w - 1) |->
        IF is_mine(g1[j][i]) THEN g1[j][i] ELSE get_k(w, h, g1, j, i)]]

(* ---- the render sink may fail on any refresh ------------------------- *)
RenderResults == {"Ok", "Err"}

(* ---- state after new(w, h, m) ---------------------------------------- *)
Init ==
  /\ w \in 1 .. MaxW
  /\ h \in 1 .. MaxH
  /\ w * h <= MaxCells
  /\ m \in 0 .. Min(w * h, MaxMines)
  /\ f = [j \in 0 .. (h - 1) |-> [i \in 0 .. (w - 1) |-> 0]]
  /\ s = 0
  /\ r = 0
  /\ c = 0
  /\ t = 0
  /\ last = [op |-> "new", ret |-> "unit", render |-> FALSE]

(* ---- click ----------------------------------------------------------- *)
first_always(st) == TRUE
first_time(st) == st = 0

click(p) ==
  LET f1 == IF first_time(s) THEN start(f, p) ELSE f
  IN IF ~is_opened(f1, r, c)
     THEN LET o == open([f |-> f1, s |-> s, ok |-> TRUE, calls |-> 0], r, c)
          IN IF ~o.ok
             THEN [f |-> o.f, s |-> explosion(o.s)]
             ELSE [f |-> o.f,
                   s |-> IF (o.s + m) % U16 = (w * h) % U16
                         THEN success(o.s) ELSE o.s]
     ELSE [f |-> f1, s |-> s]

Click ==
  \E p \in (IF first_time(s) THEN Shuffles ELSE {<<>>}) :
    /\ f' = click(p).f
    /\ s' = click(p).s
    /\ last' = [op |-> "click", ret |-> "true", render |-> FALSE]
    /\ UNCHANGED <<w, h, m, r, c, t>>

(* ---- ending ---------------------------------------------------------- *)
\* res is what the render sink answers to the refresh
ending_rollback(res) ==
  /\ f' = IF res = "Err" THEN f
          ELSE [j \in 0 .. (h - 1) |-> [i \in 0 .. (w - 1) |-> set_o(f[j][i], TRUE)]]
  /\ last' = [op |-> "ending", ret |-> res, render |-> TRUE]
  /\ UNCHANGED <<w, h, m, s, r, c, t>>

ending_skipmines(res) ==
  /\ f' = [j \in 0 .. (h - 1) |-> [i \in 0 .. (w - 1) |->
             IF is_mine(get_v(f[j][i])) THEN f[j][i] ELSE set_o(f[j][i], TRUE)]]
  /\ last' = [op |-> "ending", ret |-> res, render |-> TRUE]
  /\ UNCHANGED <<w, h, m, s, r, c, t>>

ending(res) ==
  /\ f' = [j \in 0 .. (h - 1) |-> [i \in 0 .. (w - 1) |-> set_o(f[j][i], TRUE)]]
  /\ last' = [op |-> "ending", ret |-> res, render |-> TRUE]
  /\ UNCHANGED <<w, h, m, s, r, c, t>>

Ending == \E res \in RenderResults : ending(res)

(* ---- refresh --------------------------------------------------------- *)
refresh(res) ==
  /\ last' = [op |-> "refresh", ret |-> res, render |-> TRUE]
  /\ UNCHANGED <<w, h, m, f, s, r, c, t>>

Refresh == \E res \in RenderResults : refresh(res)

(* ---- cursor moves ---------------------------------------------------- *)
Up ==
  /\ r' = IF r > 0 THEN r - 1 ELSE r
  /\ last' = [op |-> "up", ret |-> "unit", render |-> FALSE]
  /\ UNCHANGED <<w, h, m, f, s, c, t>>

Down_unclamped ==
  /\ r' = r + 1
  /\ last' = [op |-> "down", ret |-> "unit", render |-> FALSE]
  /\ UNCHANGED <<w, h, m, f, s, c, t>>

Down ==
  /\ r' = IF r < h - 1 THEN r + 1 ELSE r
  /\ last' = [op |-> "down", ret |-> "unit", render |-> FALSE]
  /\ UNCHANGED <<w, h, m, f, s, c, t>>

Left ==
  /\ c' = IF c > 0 THEN c - 1 ELSE c
  /\ last' = [op |-> "left", ret |-> "unit", render |-> FALSE]
  /\ UNCHANGED <<w, h, m, f, s, r, t>>

Right ==
  /\ c' = IF c < w - 1 THEN c + 1 ELSE c
  /\ last' = [op |-> "right", ret |-> "unit", render |-> FALSE]
  /\ UNCHANGED <<w, h, m, f, s, r, t>>

\* update_m(x, y); x and y range one past the grid so that the call can fail
in_range_incl(x, y) == x <= w /\ y < h
in_range(x, y) == x < w /\ y < h

update_m(x, y) ==
  /\ IF in_range(x, y)
     THEN /\ c' = x
          /\ r' = y
          /\ last' = [op |-> "update_m", ret |-> "true", render |-> FALSE]
     ELSE /\ UNCHANGED <<c, r>>
          /\ last' = [op |-> "update_m", ret |-> "false", render |-> FALSE]
  /\ UNCHANGED <<w, h, m, f, s, t>>

Update_m == \E x \in 0 .. w, y \in 0 .. h : update_m(x, y)

(* ---- is_blink, tick and reset_tick ----------------------------------- *)
is_blink_late(tt) == tt <= b \div 2
is_blink(tt) == tt < b \div 2

at_half_never(t1) == FALSE
at_half(t1) == t1 = b \div 2

at_period_late(t1) == t1 > b
at_period(t1) == t1 >= b

tick(res) ==
  LET t1 == (t + 1) % U16
  IN IF at_half(t1)
     THEN /\ t' = t1
          /\ last' = [op |-> "tick", ret |-> res, render |-> TRUE]
          /\ UNCHANGED <<w, h, m, f, s, r, c>>
     ELSE IF at_period(t1)
     THEN /\ t' = 0
          /\ last' = [op |-> "tick", ret |-> res, render |-> TRUE]
          /\ UNCHANGED <<w, h, m, f, s, r, c>>
     ELSE /\ t' = t1
          /\ last' = [op |-> "tick", ret |-> "Ok", render |-> FALSE]
          /\ UNCHANGED <<w, h, m, f, s, r, c>>

Tick == \E res \in RenderResults : tick(res)

(* ---- c: the glyph and colour pair of cell (rr, cc) holding byte u ----- *)
\* "L*??PPPP++++++++", indexed by the upper 4 bits
GlyphF == <<"L", "*", "?", "?", "P", "P", "P", "P",
            "+", "+", "+", "+", "+", "+", "+", "+">>
\* "_12345678......@", indexed by the lower 4 bits
GlyphS == <<"_", "1", "2", "3", "4", "5", "6", "7",
            "8", ".", ".", ".", ".", ".", ".", "@">>

present_overlay_on_success(rr, cc, u) ==
  LET v == get_v(u)
      n == IF is_opened(f, rr, cc) THEN GlyphS[v + 1] ELSE GlyphF[1]
      curs == rr = r /\ cc = c
      o == IF ~curs THEN n
           ELSE IF is_explosion(s) /\ is_mine(v) THEN GlyphF[2]
           ELSE IF is_blink(t) THEN GlyphF[16] ELSE n
      col == IF is_e(u) THEN <<4, 5>> ELSE IF is_o(u) THEN <<2, 3>> ELSE <<0, 1>>
  IN [glyph |-> o, bgc |-> col[1], fgc |-> col[2]]

present(rr, cc, u) ==
  LET v == get_v(u)
      n == IF is_opened(f, rr, cc) THEN GlyphS[v + 1] ELSE GlyphF[1]
      curs == rr = r /\ cc = c
      o == IF ~curs \/ is_success(s) THEN n
           ELSE IF is_explosion(s) /\ is_mine(v) THEN GlyphF[2]
           ELSE IF is_blink(t) THEN GlyphF[16] ELSE n
      col == IF is_e(u) THEN <<4, 5>> ELSE IF is_o(u) THEN <<2, 3>> ELSE <<0, 1>>
  IN [glyph |-> o, bgc |-> col[1], fgc |-> col[2]]

TickCapped == t < TickCap /\ Tick

Next ==
  \/ Click
  \/ Ending
  \/ Refresh
  \/ Up
  \/ Down
  \/ Left
  \/ Right
  \/ Update_m
  \/ TickCapped

Spec == Init /\ [][Next]_vars

(* ---- the same program with every tick taken, on boards of at most ----- *)
(* ---- BlinkCells cells ------------------------------------------------- *)
InitBlink == Init /\ w * h <= BlinkCells

NextBlink ==
  \/ Click
  \/ Ending
  \/ Refresh
  \/ Up
  \/ Down
  \/ Left
  \/ Right
  \/ Update_m
  \/ Tick

SpecBlink == InitBlink /\ [][NextBlink]_vars

(***************************************************************************)
(* Vocabulary of the properties                                            *)
(***************************************************************************)
Cells == (0 .. (h - 1)) \X (0 .. (w - 1))
val(g, cell) == get_v(g[cell[1]][cell[2]])
opened(g, cell) == is_o(g[cell[1]][cell[2]])
forced(g, cell) == is_e(g[cell[1]][cell[2]])
OpenedSet(g) == {cell \in Cells : opened(g, cell)}
MineSet(g) == {cell \in Cells : val(g, cell) = MINE}
\* the count bits of the status word
openedCount(st) == st % SUCCEEDED
Abs(x) == IF x < 0 THEN -x ELSE x
Adjacent(a, d) == a # d /\ Abs(a[1] - d[1]) <= 1 /\ Abs(a[2] - d[2]) <= 1
Neighbours(cell) == {d \in Cells : Adjacent(cell, d)}

\* the 8-connected region of zero-valued cells around a zero-valued cell
RECURSIVE ZeroClosure(_, _)
ZeroClosure(g, S) ==
  LET N == S \cup {d \in Cells : val(g, d) = 0 /\ \E a \in S : Adjacent(a, d)}
  IN IF N = S THEN S ELSE ZeroClosure(g, N)
ZeroRegion(g, cell) == ZeroClosure(g, {cell})
RegionWithBorder(g, cell) ==
  ZeroRegion(g, cell) \cup UNION {Neighbours(a) : a \in ZeroRegion(g, cell)}

\* cells open when a click reaches its reveal: placement closes every cell
PreOpened == IF s = 0 THEN {} ELSE OpenedSet(f)
ClickStep == last'.op = "click"

(***************************************************************************)
(* C1: once exploded or succeeded, a further click() changes neither the  *)
(* grid nor the status word.                                               *)
(***************************************************************************)
C1_EndedClickIsNoop ==
  [][(is_end(s) /\ ClickStep) => (f' = f /\ s' = s)]_vars

(***************************************************************************)
(* C2: click() returns failure exactly when the call sets exploded, and   *)
(* success on every other call.                                            *)
(***************************************************************************)
C2_FailureIffExploded ==
  [][ClickStep =>
       ((last'.ret = "false") <=> (~is_explosion(s) /\ is_explosion(s')))]_vars

(***************************************************************************)
(* C3: succeeded is never set unless openedCount + mineCount equals the   *)
(* cell total, and the reveal that makes the sum reach the cell total     *)
(* sets succeeded.                                                         *)
(***************************************************************************)
C3_WinDetection ==
  [][/\ is_success(s') => openedCount(s') + m = w * h
     /\ (openedCount(s) + m < w * h /\ openedCount(s') + m = w * h)
          => is_success(s')]_vars

(***************************************************************************)
(* C4: with mineCount < width*height, after the first click() the cell    *)
(* under the cursor is not a mine and exactly mineCount cells are mines.  *)
(***************************************************************************)
C4_FirstClickSafe ==
  [][(ClickStep /\ s = 0 /\ m < w * h) =>
       (/\ val(f', <<r', c'>>) # MINE
        /\ <<r', c'>> = <<r, c>>
        /\ Cardinality(MineSet(f')) = m)]_vars

C4_Witness ==
  /\ last.op = "click"
  /\ m >= 2
  /\ m < w * h
  /\ Cardinality(OpenedSet(f)) = 1
  /\ opened(f, <<r, c>>)
  /\ Cardinality(MineSet(f)) = m

(***************************************************************************)
(* C5: a cell whose opened flag is true keeps it true in every later      *)
(* state.                                                                  *)
(***************************************************************************)
C5_OpenedMonotonic ==
  [][\A cell \in Cells : opened(f, cell) => opened(f', cell)]_vars

(***************************************************************************)
(* C6: openedCount equals the number of non-mine cells whose opened flag  *)
(* is true.                                                                *)
(***************************************************************************)
C6_CountIsOpenedNonMines ==
  openedCount(s) =
    Cardinality({cell \in Cells : val(f, cell) # MINE /\ opened(f, cell)})

(***************************************************************************)
(* C6 (amended): openedCount equals the number of non-mine cells whose    *)
(* opened flag is true and whose forceOpenedAtEnd flag is clear.          *)
(***************************************************************************)
C6_CountIsRevealedNonMines ==
  openedCount(s) =
    Cardinality({cell \in Cells :
                   val(f, cell) # MINE /\ opened(f, cell) /\ ~forced(f, cell)})

C6_Witness ==
  /\ last.op = "ending"
  /\ openedCount(s) >= 2
  /\ \E cell \in Cells : val(f, cell) # MINE /\ forced(f, cell)
  /\ \E cell \in Cells : val(f, cell) = MINE

(***************************************************************************)
(* C7: a click() whose target cell is a mine sets exploded, leaves        *)
(* openedCount unchanged and sets no cell's opened flag.                  *)
(***************************************************************************)
LossEffect ==
  /\ is_explosion(s')
  /\ openedCount(s') = openedCount(s)
  /\ \A cell \in Cells : opened(f', cell) => opened(f, cell)

C7_MineClickExplodes ==
  [][(ClickStep /\ val(f', <<r, c>>) = MINE) => LossEffect]_vars

(***************************************************************************)
(* C7 (amended): a click() whose target cell is a mine that is not        *)
(* already opened sets exploded, leaves openedCount unchanged and sets no *)
(* cell's opened flag.                                                     *)
(***************************************************************************)
C7_ClosedMineClickExplodes ==
  [][(ClickStep /\ val(f', <<r, c>>) = MINE /\ <<r, c>> \notin PreOpened)
       => LossEffect]_vars

C7_Witness ==
  /\ last.op = "click"
  /\ is_explosion(s)
  /\ val(f, <<r, c>>) = MINE
  /\ ~opened(f, <<r, c>>)
  /\ openedCount(s) >= 1

(***************************************************************************)
(* C8: a click() on an unopened zero-valued cell opens exactly its        *)
(* 8-connected zero region and the cells bordering it, besides the cells  *)
(* already open; a click() on an unopened cell valued 1..8 opens only     *)
(* that cell; no click() sets the opened flag of a mine cell.             *)
(***************************************************************************)
C8_FloodFill ==
  [][ClickStep =>
       LET tgt == <<r, c>>
           v == val(f', tgt)
       IN /\ (tgt \notin PreOpened /\ v = 0)
               => OpenedSet(f') = PreOpened \cup RegionWithBorder(f', tgt)
          /\ (tgt \notin PreOpened /\ v \in 1 .. 8)
               => OpenedSet(f') = PreOpened \cup {tgt}
          /\ \A cell \in OpenedSet(f') \ PreOpened : val(f', cell) # MINE]_vars

C8_Witness ==
  /\ last.op = "click"
  /\ val(f, <<r, c>>) = 0
  /\ OpenedSet(f) = RegionWithBorder(f, <<r, c>>)
  /\ Cardinality(ZeroRegion(f, <<r, c>>)) >= 2
  /\ \E cell \in OpenedSet(f) : val(f, cell) \in 1 .. 8
  /\ \E cell \in Cells : val(f, cell) # MINE /\ ~opened(f, cell)

(***************************************************************************)
(* C9: once mines have been placed, every cell's value is 15 or the       *)
(* number of mine cells among its neighbours inside the grid.             *)
(***************************************************************************)
C9_Adjacency ==
  s # 0 =>
    \A cell \in Cells :
      \/ val(f, cell) = MINE
      \/ val(f, cell) = Cardinality(Neighbours(cell) \cap MineSet(f))

C9_Witness ==
  /\ s # 0
  /\ last.op = "ending"
  /\ w >= 2
  /\ h >= 2
  /\ \E cell \in Cells : val(f, cell) = 2
  /\ \E cell \in Cells : val(f, cell) = 0

(***************************************************************************)
(* C10: mines are placed by the first click() and never again: a click()  *)
(* leaves the status word non-zero, and from then on no step changes any  *)
(* cell's value.                                                           *)
(***************************************************************************)
C10_PlacedOnce ==
  [][/\ ClickStep => s' # 0
     /\ s # 0 => \A cell \in Cells : val(f', cell) = val(f, cell)]_vars

C10_Witness ==
  /\ last.op = "click"
  /\ is_explosion(s)
  /\ openedCount(s) >= 2
  /\ Cardinality(MineSet(f)) = m
  /\ m >= 2

(***************************************************************************)
(* C11: when mineCount = width*height, the first click() makes every cell *)
(* a mine, the cell under the cursor included, and sets exploded with     *)
(* openedCount still 0.                                                    *)
(***************************************************************************)
C11_FillAll ==
  [][(ClickStep /\ s = 0 /\ m = w * h) =>
       (/\ MineSet(f') = Cells
        /\ val(f', <<r, c>>) = MINE
        /\ is_explosion(s')
        /\ openedCount(s') = 0
        /\ OpenedSet(f') = {})]_vars

C11_Witness ==
  /\ last.op = "click"
  /\ m = w * h
  /\ w * h >= 2
  /\ MineSet(f) = Cells
  /\ s = EXPLODED
  /\ <<r, c>> # <<0, 0>>

TickStep == last'.op = "tick"

(***************************************************************************)
(* C12: tickCounter stays in [0, 80); is_blink() is true exactly while it *)
(* is in [0, 40); every tick() advances it by one and the 80th tick of a  *)
(* period wraps it to 0.                                                   *)
(***************************************************************************)
C12_BlinkCycle ==
  /\ [](t \in 0 .. 79 /\ (is_blink(t) <=> t \in 0 .. 39))
  /\ [][TickStep => t' = (IF t = 79 THEN 0 ELSE t + 1)]_vars

C12_Witness ==
  /\ last.op = "tick"
  /\ t = 0
  /\ last.render

(***************************************************************************)
(* C13: a tick() triggers a full refresh exactly when it brings           *)
(* tickCounter to blinkPeriod/2 or to blinkPeriod (where it is reset to   *)
(* 0), that is on two ticks of every blinkPeriod consecutive ticks.       *)
(***************************************************************************)
C13_TwoRendersPerPeriod ==
  [][TickStep =>
       /\ last'.render <=> (t + 1 = b \div 2 \/ t + 1 = b)
       /\ (t + 1 = b) <=> (t' = 0)
       /\ (t + 1 # b) => t' = t + 1]_vars

C13_Witness ==
  /\ last.op = "tick"
  /\ t = b \div 2
  /\ last.render

(***************************************************************************)
(* C14: the cursor stays inside the grid, and up at row 0, down at row    *)
(* height-1, left at column 0 and right at column width-1 leave it where  *)
(* it is.                                                                  *)
(***************************************************************************)
C14_CursorBounds ==
  /\ [](r \in 0 .. (h - 1) /\ c \in 0 .. (w - 1))
  /\ [][/\ (last'.op = "up" /\ r = 0) => <<r', c'>> = <<r, c>>
        /\ (last'.op = "down" /\ r = h - 1) => <<r', c'>> = <<r, c>>
        /\ (last'.op = "left" /\ c = 0) => <<r', c'>> = <<r, c>>
        /\ (last'.op = "right" /\ c = w - 1) => <<r', c'>> = <<r, c>>]_vars

C14_Witness ==
  /\ last.op = "down"
  /\ h >= 2
  /\ w >= 2
  /\ r = h - 1
  /\ c = w - 1

(***************************************************************************)
(* C15: update_m(x, y) with x >= width or y >= height returns false and   *)
(* changes nothing; otherwise it sets cursorCol = x and cursorRow = y,    *)
(* returns true and changes nothing else.                                  *)
(***************************************************************************)
C15_SetCursor ==
  [][last'.op = "update_m" =>
       \A x \in 0 .. w, y \in 0 .. h :
         update_m(x, y) =>
           /\ UNCHANGED <<w, h, m, f, s, t>>
           /\ IF x >= w \/ y >= h
              THEN last'.ret = "false" /\ UNCHANGED <<r, c>>
              ELSE last'.ret = "true" /\ c' = x /\ r' = y]_vars

C15_Witness ==
  /\ last.op = "update_m"
  /\ last.ret = "false"
  /\ <<r, c>> = <<h - 1, w - 1>>
  /\ w * h >= 4
  /\ s # 0

EndingStep == last'.op = "ending"

(***************************************************************************)
(* C16: after ending() every cell is opened; forceOpenedAtEnd is set on   *)
(* exactly the cells that were not opened before the call (and kept where *)
(* an earlier ending() set it), never on a cell the player opened; values *)
(* and the status word are unchanged; a second ending() changes no cell.  *)
(***************************************************************************)
C16_EndingReveal ==
  [][EndingStep =>
       /\ \A cell \in Cells :
            /\ opened(f', cell)
            /\ forced(f', cell) <=> (~opened(f, cell) \/ forced(f, cell))
            /\ (opened(f, cell) /\ ~forced(f, cell)) => ~forced(f', cell)
            /\ val(f', cell) = val(f, cell)
       /\ s' = s
       /\ (\A cell \in Cells : opened(f, cell)) => f' = f]_vars

C16_Witness ==
  /\ last.op = "ending"
  /\ is_explosion(s)
  /\ \E cell \in Cells : opened(f, cell) /\ ~forced(f, cell)
  /\ \E cell \in Cells : forced(f, cell) /\ val(f, cell) = MINE
  /\ \E cell \in Cells : forced(f, cell) /\ val(f, cell) # MINE

(***************************************************************************)
(* C17: when the render sink fails during tick() (at the half period or   *)
(* at the wrap), ending() or refresh(), the call returns the failure and  *)
(* keeps its state change: the counter is advanced or reset to 0, after   *)
(* ending() every cell is opened, and nothing else is changed back.       *)
(***************************************************************************)
C17_RenderFailureKeepsState ==
  [][/\ (TickStep /\ tick("Err") /\ (t + 1 = b \div 2 \/ t + 1 = b)) =>
          /\ last'.ret = "Err"
          /\ t' = (IF t + 1 = b THEN 0 ELSE t + 1)
          /\ UNCHANGED <<f, s, r, c>>
     /\ (EndingStep /\ ending("Err")) =>
          /\ last'.ret = "Err"
          /\ \A cell \in Cells : opened(f', cell)
          /\ UNCHANGED <<s, r, c, t>>
     /\ (last'.op = "refresh" /\ refresh("Err")) =>
          /\ last'.ret = "Err"
          /\ UNCHANGED <<f, s, r, c, t>>]_vars

C17_Witness ==
  /\ last.op = "ending"
  /\ last.ret = "Err"
  /\ s # 0
  /\ t >= b \div 2
  /\ \A cell \in Cells : opened(f, cell)
  /\ \E cell \in Cells : forced(f, cell)

(***************************************************************************)
(* C18: the glyph of a cell is its base glyph ('L' unopened, else '_',    *)
(* '1'..'8' or '@' by value) when it is not the cursor cell or the game   *)
(* is succeeded; for the cursor cell of a game not succeeded it is '*' if *)
(* the game is exploded and the cell a mine, else '+' if is_blink(), else *)
(* the base glyph.                                                         *)
(***************************************************************************)
BaseGlyph(cell) ==
  IF ~opened(f, cell) THEN "L"
  ELSE CASE val(f, cell) = 0 -> "_"
         [] val(f, cell) \in 1 .. 8 ->
              <<"1", "2", "3", "4", "5", "6", "7", "8">>[val(f, cell)]
         [] val(f, cell) = MINE -> "@"
         [] OTHER -> "no glyph"

OverlayGlyph(cell) ==
  IF cell # <<r, c>> \/ is_success(s) THEN BaseGlyph(cell)
  ELSE IF is_explosion(s) /\ val(f, cell) = MINE THEN "*"
  ELSE IF t < 40 THEN "+"
  ELSE BaseGlyph(cell)

C18_CursorOverlay ==
  \A cell \in Cells :
    present(cell[1], cell[2], f[cell[1]][cell[2]]).glyph = OverlayGlyph(cell)

C18_Witness ==
  /\ is_explosion(s)
  /\ ~is_success(s)
  /\ t >= 40
  /\ present(r, c, f[r][c]).glyph = "*"
  /\ opened(f, <<r, c>>)
  /\ \E cell \in Cells :
       cell # <<r, c>> /\ present(cell[1], cell[2], f[cell[1]][cell[2]]).glyph = "@"

(***************************************************************************)
(* C19: the recursive reveal started by a click() terminates: it makes at *)
(* most width*height calls of open, each of which opens one cell not      *)
(* opened before, and openedCount grows by exactly the number of cells    *)
(* the click opened.                                                       *)
(***************************************************************************)
\* the grid open() starts from: what placement left, or the current grid
RevealFrom ==
  IF s = 0
  THEN [j \in 0 .. (h - 1) |-> [i \in 0 .. (w - 1) |-> val(f', <<j, i>>)]]
  ELSE f

C19_FloodFillBounded ==
  [][(ClickStep /\ <<r, c>> \notin PreOpened) =>
       LET o == open([f |-> RevealFrom, s |-> s, ok |-> TRUE, calls |-> 0], r, c)
           new == OpenedSet(f') \ PreOpened
       IN /\ o.f = f'
          /\ o.calls <= w * h
          /\ o.calls = (IF o.ok THEN Cardinality(new) ELSE 1)
          /\ openedCount(s') = openedCount(s) + Cardinality(new)]_vars

C19_Witness ==
  /\ last.op = "click"
  /\ m = 0
  /\ w * h = 6
  /\ openedCount(s) = 6
  /\ OpenedSet(f) = Cells
  /\ <<r, c>> = <<1, 1>>

(***************************************************************************)
(* C20: on a board whose mines are placed, ending() leaves every cell     *)
(* opened, mines included, every cell then stays opened, and every later  *)
(* click(), wherever the cursor is, changes neither the grid nor the      *)
(* status word.                                                            *)
(***************************************************************************)
AllOpened(g) == \A cell \in Cells : opened(g, cell)

C20_ClickAfterEndingIsNoop ==
  [][/\ EndingStep => AllOpened(f')
     /\ (s # 0 /\ AllOpened(f)) => AllOpened(f')
     /\ (s # 0 /\ AllOpened(f) /\ ClickStep) => (f' = f /\ s' = s)]_vars

C20_Witness ==
  /\ last.op = "click"
  /\ AllOpened(f)
  /\ \E cell \in Cells : forced(f, cell) /\ val(f, cell) # MINE
  /\ val(f, <<r, c>>) = MINE
  /\ ~is_end(s)
  /\ s # 0

====
